---- MODULE Spec2Model ----
(***************************************************************************)
(* Session-based authentication of the blog server: the session store,     *)
(* login / logout (controllers/auth.controllers.ts) and the authenticate   *)
(* middleware (middleware/auth.ts).                                         *)
(*                                                                         *)
(* Every handler is an async function: between two awaits on the store     *)
(* other requests run.  A handler is cut into steps exactly where it       *)
(* awaits a store operation that another request's write can race with:    *)
(*   login        = LoginStart (user read, checks, token, session lookup)  *)
(*                  ; LoginWrite (update or insert, then the response)     *)
(*   authenticate = Authenticate (session read and the four checks)        *)
(*                  ; AuthExpire (the lazy-expiry write, then the 401)     *)
(*   logout       = Logout (one UPDATE statement, then the response)       *)
(* res is the response the last step produced.  res.json() / next() are    *)
(* synchronous, so the response leaves (Send) before any other step runs.  *)
(* Time is an integer clock; one tick is 12 hours.                         *)
(*                                                                         *)
(* Specifications:                                                         *)
(*   Spec          the session store under login, validation, logout, ban  *)
(*   RouteSpec     the same with the catch blocks and GET /auth/session    *)
(*   ScopeSpec     the users router: scope middlewares and handler ids     *)
(*   AccountSpec   the users router behind the gate: updateUser and        *)
(*                 deleteUser acting on the users and sessions tables      *)
(*   LifecycleSpec one account's sessions with clock, expiry, logout,      *)
(*                 self-promotion and deletion                             *)
(*   LikeSpec      concurrent POST /api/like-articles                      *)
(***************************************************************************)
EXTENDS Integers, Sequences, FiniteSets, TLC

\* ---------------------------------------------------------------- bounds
MaxTime == 3
MaxLogins == 2
MaxInflight == 2
MaxRouteLogins == 1

\* const SESSION_EXPIRES_IN = 24 * 60 * 60 * 1000 : 24 hours = 2 ticks
SESSION_EXPIRES_IN == 2

Users == {1, 2}
Ips == {1, 2}
Agents == {1, 2}
Slots == 1..MaxInflight


VARIABLES
  now,       \* new Date() / Date.now()
  users,     \* the users table: userId -> row
  sessions,  \* the sessions table: a sequence, the id of a row is its index
  reqs,      \* requests suspended at an await: slot -> locals
  res,       \* the response being sent (or next() being called) by the last step
  nSalt,     \* bcrypt salts drawn so far (each hash draws a fresh salt)
  lapsed,    \* history: sessions a completed validation found past expiresAt
  call,      \* a request to the users router on its way down the middlewares
  likes,     \* the like_articles table: a sequence, the id of a row is its index
  likeReqs   \* POST /api/like-articles requests in flight: slot -> locals

vars == <<now, users, sessions, reqs, res, nSalt, lapsed, call, likes, likeReqs>>

likeVars == <<likes, likeReqs>>

\* ------------------------------------------------------- tokens and bcrypt
NoToken == <<>>
\* 'invalid-token' of the tests: not a JWT of any user
BadToken == <<0, 0>>

\* jwt.sign({ userId }, JWT_SECRET, { expiresIn }): payload userId, iat (, exp)
generateToken(userId, iat) == <<userId, iat>>

\* bcrypt keys Blowfish with the first 72 bytes of its input.  A JWT is
\* header(36) "." payload...: the first 72 bytes hold the fixed header and
\* the start of the payload {"userId":"<uuid>..., i.e. the user id and
\* neither iat, exp nor the signature.
bcryptKey(token) == token[1]

\* bcrypt.hash(token, 12): a fresh salt and the digest of the key
hashToken(token, salt) == [salt |-> salt, key |-> bcryptKey(token)]

\* bcrypt.compare(token, hash)
verifyToken(token, hash) == bcryptKey(token) = hash.key

\* bcrypt.compare(password, user.password)
passwordValid(password, user) == password = user.password


\* -------------------------------------------------------------- responses
MsgMissing == "Token d'authentification manquant"
MsgInvalid == "Session invalide"
MsgExpired == "Session expiree"
MsgToken == "Token invalide"
MsgBanned == "Votre compte a ete suspendu"
MsgBadLogin == "Email ou mot de passe incorrect"
MsgLogin == "Connexion reussie"
MsgLogout == "Deconnexion reussie"
\* no response: the gate called next() with req.user and req.session set
MsgNext == "next()"
MsgInternal == "Erreur interne du serveur"
\* a body without a message field: { success, data }
NoMessage == ""

\* user: req.user (the gate) or data.user (login); sessionId: data.sessionId
\* (login) or the session id the request named (the gate, logout); token: the
\* token cookie login sets
Response(op, status, message, user, sessionId, token) ==
  [op |-> op, status |-> status, message |-> message, user |-> user,
   sessionId |-> sessionId, token |-> token]

NoResponse == Response("none", 0, "", 0, 0, NoToken)

Idle == [pc |-> "idle", sid |-> 0, userId |-> 0, ipAddress |-> 0, userAgent |-> 0,
         token |-> NoToken, tokenHash |-> hashToken(BadToken, 0), expiresAt |-> 0,
         existing |-> 0]

\* ------------------------------------------------------------------ store
\* The row a DELETE leaves behind in the model: the ids are UUIDs and never
\* reused, so the index of a removed row stays taken and no query finds it.
Removed == [userId |-> 0, tokenHash |-> [salt |-> 0, key |-> 0], ipAddress |-> 0,
            userAgent |-> 0, expiresAt |-> 0, isActive |-> FALSE]

Exists(sid) == sid \in 1..Len(sessions) /\ sessions[sid] # Removed

\* Session.findOne({ where: { id: sessionId, isActive: true }, include: User })
findActiveSession(sid) == IF Exists(sid) /\ sessions[sid].isActive THEN sid ELSE 0

\* Mutant: the lookup of login forgets the userAgent.
existingSessions_anyAgent(userId, ipAddress, userAgent) ==
  {i \in 1..Len(sessions) :
     /\ sessions[i].userId = userId
     /\ sessions[i].ipAddress = ipAddress
     /\ sessions[i].isActive
     /\ sessions[i].expiresAt > now}

\* Mutant: the lookup of login does not filter on expiresAt.
existingSessions_ignoreExpiry(userId, ipAddress, userAgent) ==
  {i \in 1..Len(sessions) :
     /\ sessions[i].userId = userId
     /\ sessions[i].ipAddress = ipAddress
     /\ sessions[i].userAgent = userAgent
     /\ sessions[i].isActive}

\* Session.findOne({ where: { userId, ipAddress, userAgent, isActive: true,
\*                            expiresAt: { [Op.gt]: new Date() } } })
existingSessions(userId, ipAddress, userAgent) ==
  {i \in 1..Len(sessions) :
     /\ sessions[i].userId = userId
     /\ sessions[i].ipAddress = ipAddress
     /\ sessions[i].userAgent = userAgent
     /\ sessions[i].isActive
     /\ sessions[i].expiresAt > now}

\* session.expiresAt < new Date()
hasExpired(session) == session.expiresAt < now

\* What a client can put in the sessionId cookie or the logout body: 0 is
\* no value, Len(sessions) + 1 an id that names no record.
SessionIds == 0..(Len(sessions) + 1)

\* What a client can put in the token cookie: nothing, a string that is no
\* JWT, or a JWT of some user: the oldest one or one issued now.
PresentableTokens == {NoToken, BadToken} \cup {generateToken(u, t) : u \in Users, t \in {0, now}}

\* The addresses and user agents are opaque values the code only compares: a
\* login brings either a value already seen or the next unseen one.
SeenIps == {sessions[i].ipAddress : i \in 1..Len(sessions)} \cup {reqs[s].ipAddress : s \in Slots}
SeenAgents == {sessions[i].userAgent : i \in 1..Len(sessions)} \cup {reqs[s].userAgent : s \in Slots}
NextValue(values, seen) == {v \in values : \A w \in values : w < v => w \in seen}

\* ------------------------------------------------------- the users router
\* req.params.id: NoId when the matched route has no :id; Me is the path
\* segment 'me' (no UUID); UnknownId is a UUID that names no user.
NoId == 0
Me == 9
UnknownId == 3

\* req.user as authenticate leaves it: a user row, or nothing
NoUser == [id |-> NoId, isAdmin |-> FALSE]
Identities == {NoUser} \cup [id : Users, isAdmin : BOOLEAN]

\* router.<method>(path, authenticate, <scope>, validate(...), <handler>) of
\* user.routes.ts, in the order of their registration
UserRoutes ==
  <<[method |-> "GET", first |-> "me", rest |-> "", scope |-> "none", handler |-> "getUserById"],
    [method |-> "PUT", first |-> "me", rest |-> "", scope |-> "none", handler |-> "updateUser"],
    [method |-> "POST", first |-> "me", rest |-> "verify-email", scope |-> "none", handler |-> "verifyEmail"],
    [method |-> "POST", first |-> "me", rest |-> "change-password", scope |-> "none", handler |-> "changePassword"],
    [method |-> "GET", first |-> ":id", rest |-> "", scope |-> "userOrAdminScope", handler |-> "getUserById"],
    [method |-> "PUT", first |-> ":id", rest |-> "", scope |-> "userOrAdminScope", handler |-> "updateUser"],
    [method |-> "DELETE", first |-> ":id", rest |-> "", scope |-> "adminScope", handler |-> "deleteUser"],
    [method |-> "POST", first |-> ":id", rest |-> "verify-email", scope |-> "userScope", handler |-> "verifyEmail"],
    [method |-> "POST", first |-> ":id", rest |-> "change-password", scope |-> "userScope", handler |-> "changePassword"],
    [method |-> "PATCH", first |-> ":id", rest |-> "ban", scope |-> "adminScope", handler |-> "toggleBanUser"]>>

Scopes == {"userScope", "adminScope", "userOrAdminScope", "forceUserScope", "meScope"}

\* Express matches a request against the routes in their order: '/me'
\* matches the segment 'me' only, '/:id' any segment.
matches(route, method, seg, rest) ==
  /\ route.method = method
  /\ route.rest = rest
  /\ (route.first = ":id" \/ seg = Me)

matchRoute(method, seg, rest) ==
  LET hits == {i \in 1..Len(UserRoutes) : matches(UserRoutes[i], method, seg, rest)}
  IN IF hits = {} THEN 0 ELSE CHOOSE i \in hits : \A j \in hits : i <= j

\* req.params of the matched route
routeParams(route, seg) == IF UserRoutes[route].first = ":id" THEN seg ELSE NoId

\* A request: what the caller chose (method, path, an id in the query string
\* and in the body), req.user, the matched route, the scope middleware
\* mounted in front of the handler, req.params.id, and what came of it.
Call(pc, method, seg, rest, queryId, bodyId, user, scope) ==
  [pc |-> pc, method |-> method, seg |-> seg, rest |-> rest,
   queryId |-> queryId, bodyId |-> bodyId, user |-> user,
   route |-> matchRoute(method, seg, rest), scope |-> scope,
   params |-> IF matchRoute(method, seg, rest) = 0 THEN NoId
              ELSE routeParams(matchRoute(method, seg, rest), seg),
   status |-> 0, message |-> "", target |-> NoId]

NoCall == Call("none", "GET", Me, "", NoId, NoId, NoUser, "none")

\* ------------------------------------------------------------ like rows
Articles == {1, 2}
\* a UUID that names no article
UnknownArticle == 3
\* two of the seven reaction types
LikeTypes == {"like", "love"}

\* The row a DELETE leaves behind in the model (see Removed).
RemovedLike == [userId |-> 0, articleId |-> 0, type |-> ""]

LikeIdle == [pc |-> "idle", userId |-> 0, articleId |-> 0, type |-> "", existing |-> 0,
             status |-> 0, likeId |-> 0]

StoreInit ==
  /\ now = 0
  /\ users = [u \in Users |-> [isBanned |-> FALSE, password |-> u, isAdmin |-> FALSE]]
  /\ sessions = <<>>
  /\ reqs = [s \in Slots |-> Idle]
  /\ res = NoResponse
  /\ nSalt = 0
  /\ lapsed = {}
  /\ likes = <<>>
  /\ likeReqs = [s \in Slots |-> LikeIdle]

Init == StoreInit /\ call = NoCall

\* A new request is suspended in the least free slot (slots only name the
\* requests in flight).
FreeSlot(slot) == reqs[slot].pc = "idle" /\ \A other \in Slots : other < slot => reqs[other].pc # "idle"

\* ---------------------------------------------------------- authenticate
\* Mutant: the lookup does not filter on isActive and the ban is checked
\* before the token.
gateDecision_reordered(sid, token) ==
  IF sid = 0 \/ token = NoToken THEN "missing"
  ELSE IF ~Exists(sid) THEN "invalid"
  ELSE IF hasExpired(sessions[sid]) THEN "expired"
  ELSE IF ~sessions[sid].isActive THEN "invalid"
  ELSE IF sessions[sid].userId \notin DOMAIN users THEN "banned"
  ELSE IF users[sessions[sid].userId].isBanned THEN "banned"
  ELSE IF ~verifyToken(token, sessions[sid].tokenHash) THEN "token"
  ELSE "pass"

\* The reason the gate settles on, in the order of its early returns.
gateDecision(sid, token) ==
  IF sid = 0 \/ token = NoToken THEN "missing"
  ELSE IF findActiveSession(sid) = 0 THEN "invalid"
  ELSE IF hasExpired(sessions[sid]) THEN "expired"
  ELSE IF ~verifyToken(token, sessions[sid].tokenHash) THEN "token"
  ELSE IF sessions[sid].userId \notin DOMAIN users THEN "banned"
  ELSE IF users[sessions[sid].userId].isBanned THEN "banned"
  ELSE "pass"

\* Mutant: the gate answers 401 for every rejection, the ban included.
gateResponse_allUnauthorized(decision, sid) ==
  CASE decision = "missing" -> Response("authenticate", 401, MsgMissing, 0, sid, NoToken)
    [] decision = "invalid" -> Response("authenticate", 401, MsgInvalid, 0, sid, NoToken)
    [] decision = "expired" -> Response("authenticate", 401, MsgExpired, 0, sid, NoToken)
    [] decision = "token" -> Response("authenticate", 401, MsgToken, 0, sid, NoToken)
    [] decision = "banned" -> Response("authenticate", 401, MsgBanned, 0, sid, NoToken)
    [] OTHER -> Response("authenticate", 0, MsgNext, sessions[sid].userId, sid, NoToken)

gateResponse(decision, sid) ==
  CASE decision = "missing" -> Response("authenticate", 401, MsgMissing, 0, sid, NoToken)
    [] decision = "invalid" -> Response("authenticate", 401, MsgInvalid, 0, sid, NoToken)
    [] decision = "expired" -> Response("authenticate", 401, MsgExpired, 0, sid, NoToken)
    [] decision = "token" -> Response("authenticate", 401, MsgToken, 0, sid, NoToken)
    [] decision = "banned" -> Response("authenticate", 403, MsgBanned, 0, sid, NoToken)
    [] OTHER -> Response("authenticate", 0, MsgNext, sessions[sid].userId, sid, NoToken)

\* The validation found the record past its expiresAt (history for lapsed).
foundLapsed(sid) == IF Exists(sid) /\ hasExpired(sessions[sid]) THEN {sid} ELSE {}

\* Mutant: the gate revokes the session whenever it rejects it (token
\* mismatch and ban included), not only when it found it expired.
Authenticate_revokeOnReject(slot, sid, token) ==
  /\ res = NoResponse
  /\ FreeSlot(slot)
  /\ LET decision == gateDecision(sid, token) IN
       /\ res' = gateResponse(decision, sid)
       /\ sessions' = IF decision \in {"expired", "token", "banned"}
                      THEN [sessions EXCEPT ![sid].isActive = FALSE]
                      ELSE sessions
       /\ lapsed' = IF decision = "missing" THEN lapsed ELSE lapsed \cup foundLapsed(sid)
  /\ UNCHANGED <<likeVars, call, now, users, reqs, nSalt>>

\* Mutant: a successful validation slides the expiry of the session.
Authenticate_slidingExpiry(slot, sid, token) ==
  /\ res = NoResponse
  /\ FreeSlot(slot)
  /\ LET decision == gateDecision(sid, token) IN
       IF decision = "expired"
       THEN /\ reqs' = [reqs EXCEPT ![slot] = [Idle EXCEPT !.pc = "expire", !.sid = sid]]
            /\ UNCHANGED <<res, lapsed, sessions>>
       ELSE /\ res' = gateResponse(decision, sid)
            /\ lapsed' = IF decision = "missing" THEN lapsed ELSE lapsed \cup foundLapsed(sid)
            /\ sessions' = IF decision = "pass"
                           THEN [sessions EXCEPT ![sid].expiresAt = now + SESSION_EXPIRES_IN]
                           ELSE sessions
            /\ UNCHANGED reqs
  /\ UNCHANGED <<likeVars, call, now, users, nSalt>>

Authenticate(slot, sid, token) ==
  /\ res = NoResponse
  /\ FreeSlot(slot)
  /\ LET decision == gateDecision(sid, token) IN
       IF decision = "expired"
       THEN /\ reqs' = [reqs EXCEPT ![slot] = [Idle EXCEPT !.pc = "expire", !.sid = sid]]
            /\ UNCHANGED <<res, lapsed>>
       ELSE /\ res' = gateResponse(decision, sid)
            /\ lapsed' = IF decision = "missing" THEN lapsed ELSE lapsed \cup foundLapsed(sid)
            /\ UNCHANGED reqs
  /\ UNCHANGED <<likeVars, call, now, users, sessions, nSalt>>

\* await session.update({ isActive: false }); res.status(401) 'Session expiree'
AuthExpire(slot) ==
  /\ res = NoResponse
  /\ reqs[slot].pc = "expire"
  /\ sessions' = [sessions EXCEPT ![reqs[slot].sid].isActive = FALSE]
  /\ res' = gateResponse("expired", reqs[slot].sid)
  /\ lapsed' = lapsed \cup {reqs[slot].sid}
  /\ reqs' = [reqs EXCEPT ![slot] = Idle]
  /\ UNCHANGED <<likeVars, call, now, users, nSalt>>

\* Mutant: the catch reports the failure as an authentication failure.
internalError_asUnauthorized(op, sid) == Response(op, 401, MsgInvalid, 0, sid, NoToken)

\* catch (error) of a handler: res.status(500) 'Erreur interne du serveur'
internalError(op, sid) == Response(op, 500, MsgInternal, 0, sid, NoToken)

\* Session.findOne or bcrypt.compare throws in authenticate: both are reached
\* only when the two cookies are present; the catch answers 500.
AuthenticateThrows(slot, sid, token) ==
  /\ res = NoResponse
  /\ FreeSlot(slot)
  /\ gateDecision(sid, token) # "missing"
  /\ res' = internalError("authenticate", sid)
  /\ UNCHANGED <<likeVars, call, now, users, sessions, reqs, nSalt, lapsed>>

\* session.update({ isActive: false }) throws: the catch answers 500 and the
\* record stays as it was.
AuthExpireThrows(slot) ==
  /\ res = NoResponse
  /\ reqs[slot].pc = "expire"
  /\ res' = internalError("authenticate", reqs[slot].sid)
  /\ reqs' = [reqs EXCEPT ![slot] = Idle]
  /\ UNCHANGED <<likeVars, call, now, users, sessions, nSalt, lapsed>>

\* ------------------------------------------------------------------ login
\* User.findOne({ where: { email } }): the email of user u is u, 0 is unknown
findUserByEmail(email) == IF email \in DOMAIN users THEN email ELSE 0

loginFailure(status, message) == Response("login", status, message, 0, 0, NoToken)

\* Mutant: login does not compare the password.
loginCheck_passwordSkipped(email, password) ==
  IF findUserByEmail(email) = 0 THEN "unknown"
  ELSE IF users[email].isBanned THEN "banned"
  ELSE "ok"

\* Mutant: login compares the password before it looks at the ban.
loginCheck_passwordFirst(email, password) ==
  IF findUserByEmail(email) = 0 THEN "unknown"
  ELSE IF ~passwordValid(password, users[email]) THEN "password"
  ELSE IF users[email].isBanned THEN "banned"
  ELSE "ok"

\* The 401 / 403 early returns of login, in their order; "ok" when none is taken.
loginCheck(email, password) ==
  IF findUserByEmail(email) = 0 THEN "unknown"
  ELSE IF users[email].isBanned THEN "banned"
  ELSE IF ~passwordValid(password, users[email]) THEN "password"
  ELSE "ok"

\* login up to and including the session lookup (Session.findOne)
LoginStart(slot, email, password, ipAddress, userAgent) ==
  /\ res = NoResponse
  /\ FreeSlot(slot)
  /\ LET check == loginCheck(email, password) IN
       IF check # "ok"
       THEN /\ res' = IF check = "banned" THEN loginFailure(403, MsgBanned)
                      ELSE loginFailure(401, MsgBadLogin)
            /\ UNCHANGED <<reqs, nSalt>>
       ELSE /\ nSalt < MaxLogins
            /\ LET token == generateToken(email, now)
                   found == existingSessions(email, ipAddress, userAgent)
               IN \E existing \in (IF found = {} THEN {0} ELSE found) :
                    reqs' = [reqs EXCEPT ![slot] =
                               [pc |-> "write", sid |-> 0, userId |-> email,
                                ipAddress |-> ipAddress, userAgent |-> userAgent,
                                token |-> token,
                                tokenHash |-> hashToken(token, nSalt + 1),
                                expiresAt |-> now + SESSION_EXPIRES_IN,
                                existing |-> existing]]
            /\ nSalt' = nSalt + 1
            /\ UNCHANGED res
  /\ UNCHANGED <<likeVars, call, now, users, sessions, lapsed>>

\* Mutant: a renewal inserts a copy of the record instead of updating it.
renewSession_insert(r) ==
  Append(sessions, [sessions[r.existing] EXCEPT !.tokenHash = r.tokenHash,
                                                !.expiresAt = r.expiresAt,
                                                !.isActive = TRUE])

\* Mutant: the renewal writes the new hash and expiry and leaves isActive
\* as the store has it.
renewSession_keepIsActive(r) ==
  IF Exists(r.existing)
  THEN [sessions EXCEPT ![r.existing] =
          [@ EXCEPT !.tokenHash = r.tokenHash, !.expiresAt = r.expiresAt]]
  ELSE sessions

\* existingSession.update({ tokenHash, expiresAt, isActive: true }): an
\* UPDATE ... WHERE id = existingSession.id, which touches no row when the
\* record was removed since the lookup.
renewSession(r) ==
  IF Exists(r.existing)
  THEN [sessions EXCEPT ![r.existing] =
          [@ EXCEPT !.tokenHash = r.tokenHash, !.expiresAt = r.expiresAt, !.isActive = TRUE]]
  ELSE sessions

\* Session.create({ userId, tokenHash, ipAddress, userAgent, expiresAt, isActive: true })
\* the id is a fresh UUIDV4: the next index of the table
createSession(r) ==
  Append(sessions, [userId |-> r.userId, tokenHash |-> r.tokenHash,
                    ipAddress |-> r.ipAddress, userAgent |-> r.userAgent,
                    expiresAt |-> r.expiresAt, isActive |-> TRUE])

\* userId references users(id): an INSERT for a user deleted since the
\* lookup violates the foreign key and Session.create throws.
violatesForeignKey(r) == r.existing = 0 /\ r.userId \notin DOMAIN users

\* the write of login, the two cookies and the 200 (or the 500 of the catch)
LoginWrite(slot) ==
  /\ res = NoResponse
  /\ reqs[slot].pc = "write"
  /\ LET r == reqs[slot] IN
       IF violatesForeignKey(r)
       THEN /\ res' = internalError("login", 0)
            /\ UNCHANGED sessions
       ELSE /\ sessions' = IF r.existing # 0 THEN renewSession(r) ELSE createSession(r)
            /\ res' = Response("login", 200, MsgLogin, r.userId,
                               IF r.existing # 0 THEN r.existing ELSE Len(sessions) + 1,
                               r.token)
  /\ reqs' = [reqs EXCEPT ![slot] = Idle]
  /\ UNCHANGED <<likeVars, call, now, users, nSalt, lapsed>>

\* User.findOne, bcrypt or Session.findOne throws in login: the catch
\* answers 500 before anything is written.
LoginStartThrows(slot) ==
  /\ res = NoResponse
  /\ FreeSlot(slot)
  /\ res' = internalError("login", 0)
  /\ UNCHANGED <<likeVars, call, now, users, sessions, reqs, nSalt, lapsed>>

\* existingSession.update or Session.create throws: the catch answers 500,
\* no cookie is set and no record is written.
LoginWriteThrows(slot) ==
  /\ res = NoResponse
  /\ reqs[slot].pc = "write"
  /\ res' = internalError("login", 0)
  /\ reqs' = [reqs EXCEPT ![slot] = Idle]
  /\ UNCHANGED <<likeVars, call, now, users, sessions, nSalt, lapsed>>

\* ----------------------------------------------------------------- logout
\* Mutant: logout deactivates every session of the session's user.
deactivate_allOfUser(sid) ==
  IF Exists(sid)
  THEN [i \in 1..Len(sessions) |->
          IF sessions[i].userId = sessions[sid].userId
          THEN [sessions[i] EXCEPT !.isActive = FALSE] ELSE sessions[i]]
  ELSE sessions

\* Mutant: logout flips isActive instead of clearing it.
deactivate_toggle(sid) ==
  IF Exists(sid) THEN [sessions EXCEPT ![sid].isActive = ~@] ELSE sessions

\* Session.update({ isActive: false }, { where: { id: sessionId } })
deactivate(sid) ==
  IF Exists(sid) THEN [sessions EXCEPT ![sid].isActive = FALSE] ELSE sessions

Logout(sid) ==
  /\ res = NoResponse
  /\ sessions' = deactivate(sid)
  /\ res' = Response("logout", 200, MsgLogout, 0, sid, NoToken)
  /\ UNCHANGED <<likeVars, call, now, users, reqs, nSalt, lapsed>>

\* Session.update throws in logout: the catch answers 500.
LogoutThrows(sid) ==
  /\ res = NoResponse
  /\ res' = internalError("logout", sid)
  /\ UNCHANGED <<likeVars, call, now, users, sessions, reqs, nSalt, lapsed>>

\* Mutant: the logout route is put behind authenticate.
routeMiddlewares_logoutProtected(route) ==
  CASE route = "/login" -> <<"validate">>
    [] route = "/logout" -> <<"validate", "authenticate">>
    [] route = "/session" -> <<"authenticate">>

\* The middlewares the auth router puts in front of each handler.
routeMiddlewares(route) ==
  CASE route = "/login" -> <<"validate">>
    [] route = "/logout" -> <<"validate">>
    [] route = "/session" -> <<"authenticate">>

\* The request with these two cookies reaches the handler of the route.
routeAdmits(route, cookieSid, cookieToken) ==
  \A i \in 1..Len(routeMiddlewares(route)) :
    routeMiddlewares(route)[i] = "authenticate" => gateDecision(cookieSid, cookieToken) = "pass"

\* The cookies a logout request may carry: none, or the pair some login
\* issued for some session (the caller's own or another user's).
Credentials ==
  {<<0, NoToken>>} \cup {<<i, generateToken(sessions[i].userId, 0)>> : i \in 1..Len(sessions)}

\* POST /api/auth/logout: validate(logoutSchema, 'body') admits every body
\* whose sessionId is a UUID, then logout runs on body.sessionId.
LogoutRoute(cookieSid, cookieToken, sid) ==
  /\ routeAdmits("/logout", cookieSid, cookieToken)
  /\ Logout(sid)

\* ------------------------------------------------------------- getSession
\* GET /api/auth/session is authenticate, then getSession: the gate lets the
\* request through (req.user and req.session are set, next() is called) and
\* the handler starts, its own Session.findOne still to be awaited.
GetSessionRoute(slot, sid, token) ==
  /\ res = NoResponse
  /\ FreeSlot(slot)
  /\ gateDecision(sid, token) = "pass"
  /\ reqs' = [reqs EXCEPT ![slot] = [Idle EXCEPT !.pc = "session", !.sid = sid,
                                                !.token = token,
                                                !.userId = sessions[sid].userId]]
  /\ UNCHANGED <<likeVars, call, now, users, sessions, res, nSalt, lapsed>>

\* The early returns of getSession in their order; "ok" when none is taken.
getSessionDecision(sid, token) ==
  IF sid = 0 \/ token = NoToken THEN "missing"
  ELSE IF findActiveSession(sid) = 0 THEN "invalid"
  ELSE IF hasExpired(sessions[sid]) THEN "expired"
  ELSE IF ~verifyToken(token, sessions[sid].tokenHash) THEN "token"
  ELSE IF sessions[sid].userId \notin DOMAIN users THEN "nouser"
  ELSE "ok"

\* res.status(401).json({ success: false, data: null }) for every early
\* return, res.status(200).json({ success: true, data: { user, session } })
sessionResponse(decision, sid) ==
  IF decision = "ok"
  THEN Response("session", 200, NoMessage, sessions[sid].userId, sid, NoToken)
  ELSE Response("session", 401, NoMessage, 0, sid, NoToken)

\* getSession from its lookup to its response, or to its lazy-expiry write
GetSession(slot) ==
  /\ res = NoResponse
  /\ reqs[slot].pc = "session"
  /\ LET decision == getSessionDecision(reqs[slot].sid, reqs[slot].token) IN
       IF decision = "expired"
       THEN /\ reqs' = [reqs EXCEPT ![slot].pc = "sessionExpire"]
            /\ UNCHANGED res
       ELSE /\ res' = sessionResponse(decision, reqs[slot].sid)
            /\ reqs' = [reqs EXCEPT ![slot] = Idle]
  /\ UNCHANGED <<likeVars, call, now, users, sessions, nSalt, lapsed>>

\* await session.update({ isActive: false }); res.status(401) of getSession
GetSessionExpire(slot) ==
  /\ res = NoResponse
  /\ reqs[slot].pc = "sessionExpire"
  /\ sessions' = [sessions EXCEPT ![reqs[slot].sid].isActive = FALSE]
  /\ res' = sessionResponse("expired", reqs[slot].sid)
  /\ lapsed' = lapsed \cup {reqs[slot].sid}
  /\ reqs' = [reqs EXCEPT ![slot] = Idle]
  /\ UNCHANGED <<likeVars, call, now, users, nSalt>>

\* Session.findOne, session.update or bcrypt.compare throws in getSession:
\* res.status(500).json({ success: false, data: null })
GetSessionThrows(slot) ==
  /\ res = NoResponse
  /\ reqs[slot].pc \in {"session", "sessionExpire"}
  /\ res' = Response("session", 500, NoMessage, 0, reqs[slot].sid, NoToken)
  /\ reqs' = [reqs EXCEPT ![slot] = Idle]
  /\ UNCHANGED <<likeVars, call, now, users, sessions, nSalt, lapsed>>

\* ------------------------------------------------------------ ban / unban
\* Mutant: a ban revokes the user's sessions eagerly.
SetBanned_revokeSessions(userId, isBanned) ==
  /\ res = NoResponse
  /\ userId \in DOMAIN users
  /\ users[userId].isBanned # isBanned
  /\ users' = [users EXCEPT ![userId].isBanned = isBanned]
  /\ sessions' = [i \in 1..Len(sessions) |->
                    IF isBanned /\ sessions[i].userId = userId
                    THEN [sessions[i] EXCEPT !.isActive = FALSE] ELSE sessions[i]]
  /\ UNCHANGED <<likeVars, call, now, reqs, res, nSalt, lapsed>>

\* user.update({ isBanned }) of toggleBanUser (PATCH /api/users/:id/ban)
SetBanned(userId, isBanned) ==
  /\ res = NoResponse
  /\ userId \in DOMAIN users
  /\ users[userId].isBanned # isBanned
  /\ users' = [users EXCEPT ![userId].isBanned = isBanned]
  /\ UNCHANGED <<likeVars, call, now, sessions, reqs, res, nSalt, lapsed>>

\* ----------------------------------------------------------------- clock
Tick ==
  /\ res = NoResponse
  /\ now < MaxTime
  /\ now' = now + 1
  /\ UNCHANGED <<likeVars, call, users, sessions, reqs, res, nSalt, lapsed>>

\* ------------------------------------------------------------------ send
\* The response is on the wire (or the next middleware has taken over).
Send ==
  /\ res # NoResponse
  /\ res' = NoResponse
  /\ UNCHANGED <<likeVars, call, now, users, sessions, reqs, nSalt, lapsed>>

Next ==
  \/ \E slot \in Slots, sid \in SessionIds, token \in PresentableTokens : Authenticate(slot, sid, token)
  \/ \E slot \in Slots : AuthExpire(slot)
  \/ \E slot \in Slots, email \in Users \cup {0}, password \in Users,
        ipAddress \in NextValue(Ips, SeenIps), userAgent \in NextValue(Agents, SeenAgents) :
       LoginStart(slot, email, password, ipAddress, userAgent)
  \/ \E slot \in Slots : LoginWrite(slot)
  \/ \E sid \in SessionIds \ {0}, cred \in Credentials : LogoutRoute(cred[1], cred[2], sid)
  \/ \E userId \in Users, isBanned \in BOOLEAN : SetBanned(userId, isBanned)
  \/ Tick
  \/ Send

Spec == Init /\ [][Next]_vars

\* The store can fail: an awaited call of a handler throws and its catch
\* answers 500.
Throws ==
  \/ \E slot \in Slots, sid \in SessionIds, token \in PresentableTokens : AuthenticateThrows(slot, sid, token)
  \/ \E slot \in Slots : AuthExpireThrows(slot)
  \/ \E slot \in Slots : LoginStartThrows(slot)
  \/ \E slot \in Slots : LoginWriteThrows(slot)
  \/ \E sid \in SessionIds \ {0} : LogoutThrows(sid)
  \/ \E slot \in Slots : GetSessionThrows(slot)

\* GET /api/auth/session behind the gate
SessionRoute ==
  \/ \E slot \in Slots, sid \in SessionIds, token \in PresentableTokens : GetSessionRoute(slot, sid, token)
  \/ \E slot \in Slots : GetSession(slot)
  \/ \E slot \in Slots : GetSessionExpire(slot)

\* The handlers with their catch blocks and the session route, for the
\* sessions of MaxRouteLogins logins.
RouteNext ==
  \/ Next /\ nSalt' <= MaxRouteLogins
  \/ Throws
  \/ SessionRoute

RouteSpec == Init /\ [][RouteNext]_vars


\* ------------------------------------------------------ scope middlewares
MsgUnauthenticated == "Non authentifie"
MsgSelfOnly == "Acces refuse : vous ne pouvez acceder qu'a vos propres donnees"
MsgAdminOnly == "Acces refuse : privileges administrateur requis"
MsgValidation == "Erreurs de validation"

\* What a middleware does with the request: next() with the req.params.id it
\* leaves, or res.status(status).json({ success: false, message }).
scopeNext(params) == [status |-> 0, message |-> MsgNext, params |-> params]
scopeReject(status, message, params) == [status |-> status, message |-> message, params |-> params]

\* Mutant: self-only lets an admin through to any target.
userScope_adminBypass(user, params) ==
  IF user = NoUser THEN scopeReject(401, MsgUnauthenticated, params)
  ELSE IF params # NoId /\ params # user.id /\ ~user.isAdmin
       THEN scopeReject(403, MsgSelfOnly, params)
  ELSE scopeNext(params)

userScope(user, params) ==
  IF user = NoUser THEN scopeReject(401, MsgUnauthenticated, params)
  ELSE IF params # NoId /\ params # user.id THEN scopeReject(403, MsgSelfOnly, params)
  ELSE scopeNext(params)

adminScope(user, params) ==
  IF user = NoUser THEN scopeReject(401, MsgUnauthenticated, params)
  ELSE IF ~user.isAdmin THEN scopeReject(403, MsgAdminOnly, params)
  ELSE scopeNext(params)

\* Mutant: self-or-admin lets only admins through.
userOrAdminScope_adminOnly(user, params) ==
  IF user = NoUser THEN scopeReject(401, MsgUnauthenticated, params)
  ELSE IF user.isAdmin THEN scopeNext(params)
  ELSE scopeReject(403, MsgSelfOnly, params)

userOrAdminScope(user, params) ==
  IF user = NoUser THEN scopeReject(401, MsgUnauthenticated, params)
  ELSE IF user.isAdmin THEN scopeNext(params)
  ELSE IF params # NoId /\ params # user.id THEN scopeReject(403, MsgSelfOnly, params)
  ELSE scopeNext(params)

\* req.params.id = req.user.id
forceUserScope(user, params) ==
  IF user = NoUser THEN scopeReject(401, MsgUnauthenticated, params)
  ELSE scopeNext(user.id)

meScope(user, params) ==
  IF user = NoUser THEN scopeReject(401, MsgUnauthenticated, params)
  ELSE scopeNext(params)

\* The request after a scope middleware ran on it: rejected, or on its way
\* to validate(userIdParamSchema, 'params') when the route has an :id, to
\* the handler when it has none.
afterScope(c, outcome) ==
  IF outcome.status # 0
  THEN [c EXCEPT !.pc = "done", !.status = outcome.status, !.message = outcome.message]
  ELSE [c EXCEPT !.pc = IF UserRoutes[c.route].first = ":id" THEN "validate" ELSE "handler",
                 !.params = outcome.params]

storeVars == <<now, users, sessions, reqs, res, nSalt, lapsed, likes, likeReqs>>

UserScope ==
  /\ call.pc = "scope" /\ call.scope = "userScope"
  /\ call' = afterScope(call, userScope(call.user, call.params))
  /\ UNCHANGED storeVars

AdminScope ==
  /\ call.pc = "scope" /\ call.scope = "adminScope"
  /\ call' = afterScope(call, adminScope(call.user, call.params))
  /\ UNCHANGED storeVars

UserOrAdminScope ==
  /\ call.pc = "scope" /\ call.scope = "userOrAdminScope"
  /\ call' = afterScope(call, userOrAdminScope(call.user, call.params))
  /\ UNCHANGED storeVars

ForceUserScope ==
  /\ call.pc = "scope" /\ call.scope = "forceUserScope"
  /\ call' = afterScope(call, forceUserScope(call.user, call.params))
  /\ UNCHANGED storeVars

MeScope ==
  /\ call.pc = "scope" /\ call.scope = "meScope"
  /\ call' = afterScope(call, meScope(call.user, call.params))
  /\ UNCHANGED storeVars

\* A route without scope middleware: authenticate hands over to the handler
\* (or to the validation of the params).
NoScope ==
  /\ call.pc = "scope" /\ call.scope = "none"
  /\ call' = afterScope(call, scopeNext(call.params))
  /\ UNCHANGED storeVars

\* validate(userIdParamSchema, 'params'): the id must be a UUID
ValidateParams ==
  /\ call.pc = "validate"
  /\ call' = IF call.params = Me
             THEN [call EXCEPT !.pc = "done", !.status = 400, !.message = MsgValidation]
             ELSE [call EXCEPT !.pc = "handler"]
  /\ UNCHANGED storeVars

\* Mutant: the handler takes the id from the body when the route has none.
handlerId_fromBody(c) ==
  IF c.params # NoId THEN c.params
  ELSE IF c.bodyId # NoId THEN c.bodyId
  ELSE c.user.id

\* const id = req.params.id || req.user?.id  (getUserById, updateUser,
\* verifyEmail, changePassword); const { id } = req.params (deleteUser,
\* toggleBanUser)
handlerId(c) ==
  IF UserRoutes[c.route].handler \in {"deleteUser", "toggleBanUser"} THEN c.params
  ELSE IF c.params # NoId THEN c.params
  ELSE c.user.id

\* The handler loads the user row User.findByPk(id) and acts on it: 404 when
\* there is none.
Handler ==
  /\ call.pc = "handler"
  /\ call' = [call EXCEPT !.pc = "done", !.target = handlerId(call),
                          !.status = IF handlerId(call) \in Users THEN 200 ELSE 404]
  /\ UNCHANGED storeVars

\* The requests to the users router: every method and path the router
\* matches, with any id in the query string and the body, req.user as the
\* gate left it (nothing when no gate ran), behind any of the scope
\* middlewares, or behind none when the route mounts none.
Calls ==
  {Call("scope", method, seg, rest, queryId, bodyId, user, scope) :
     method \in {"GET", "PUT", "POST", "DELETE", "PATCH"},
     seg \in {Me, UnknownId} \cup Users,
     rest \in {"", "verify-email", "change-password", "ban"},
     queryId \in {NoId} \cup Users, bodyId \in {NoId} \cup Users,
     user \in Identities, scope \in Scopes \cup {"none"}}

ScopeInit ==
  /\ StoreInit
  /\ call \in {c \in Calls :
                 /\ c.route # 0
                 /\ c.scope = "none" => (UserRoutes[c.route].scope = "none" /\ c.user # NoUser)}

ScopeNext ==
  \/ UserScope
  \/ AdminScope
  \/ UserOrAdminScope
  \/ ForceUserScope
  \/ MeScope
  \/ NoScope
  \/ ValidateParams
  \/ Handler

ScopeSpec == ScopeInit /\ [][ScopeNext]_vars

\* ------------------------------------------- the users router, end to end
MsgUpdated == "Utilisateur mis a jour avec succes"
MsgDeleted == "Utilisateur supprime avec succes"
MsgNotFound == "Utilisateur non trouve"

\* req.user: the user row the gate loaded with the session (include: User)
loadedUser(sid) == [id |-> sessions[sid].userId, isAdmin |-> users[sessions[sid].userId].isAdmin]

\* authenticate in front of a route of the users router lets the request
\* through: req.user is set from the row just read and the scope middleware
\* of the route is next.  (Its rejections are those of Authenticate.)
UsersGate(method, seg, sid, token) ==
  /\ res = NoResponse
  /\ call.pc \in {"none", "done"}
  /\ matchRoute(method, seg, "") # 0
  /\ gateDecision(sid, token) = "pass"
  /\ call' = Call("scope", method, seg, "", NoId, NoId, loadedUser(sid),
                  UserRoutes[matchRoute(method, seg, "")].scope)
  /\ UNCHANGED storeVars

\* Mutant: updateUser drops the privilege fields of the body.
updateRow_profileOnly(row, isAdmin) == row

\* user.update(updateData) with updateData = { isAdmin }: updateUserSchema
\* lets isAdmin through and the handler writes the body as it is.
updateRow(row, isAdmin) == [row EXCEPT !.isAdmin = isAdmin]

\* updateUser: the body is read only here.
UpdateUser(isAdmin) ==
  /\ call.pc = "handler"
  /\ UserRoutes[call.route].handler = "updateUser"
  /\ LET id == handlerId(call) IN
       IF id \notin DOMAIN users
       THEN /\ call' = [call EXCEPT !.pc = "done", !.target = id, !.status = 404,
                                    !.message = MsgNotFound]
            /\ UNCHANGED users
       ELSE /\ users' = [users EXCEPT ![id] = updateRow(@, isAdmin)]
            /\ call' = [call EXCEPT !.pc = "done", !.target = id, !.status = 200,
                                    !.message = MsgUpdated]
  /\ UNCHANGED <<now, sessions, reqs, res, nSalt, lapsed, likeVars>>

\* Mutant: the sessions of a deleted user stay in the table.
cascadeSessions_none(userId) == sessions

\* ON DELETE CASCADE of sessions.userId: the rows of the user go with it.
cascadeSessions(userId) ==
  [i \in 1..Len(sessions) |-> IF sessions[i].userId = userId THEN Removed ELSE sessions[i]]

\* ON DELETE CASCADE of like_articles.userId
cascadeLikes(userId) ==
  [i \in 1..Len(likes) |-> IF likes[i].userId = userId THEN RemovedLike ELSE likes[i]]

\* deleteUser: User.findByPk(id), user.destroy()
DeleteUser ==
  /\ call.pc = "handler"
  /\ UserRoutes[call.route].handler = "deleteUser"
  /\ LET id == handlerId(call) IN
       IF id \notin DOMAIN users
       THEN /\ call' = [call EXCEPT !.pc = "done", !.target = id, !.status = 404,
                                    !.message = MsgNotFound]
            /\ UNCHANGED <<users, sessions, likes>>
       ELSE /\ users' = [u \in DOMAIN users \ {id} |-> users[u]]
            /\ sessions' = cascadeSessions(id)
            /\ likes' = cascadeLikes(id)
            /\ call' = [call EXCEPT !.pc = "done", !.target = id, !.status = 200,
                                    !.message = MsgDeleted]
  /\ UNCHANGED <<now, reqs, res, nSalt, lapsed, likeReqs>>

\* Logins, the gate, and PUT / DELETE requests to /api/users/me and
\* /api/users/:id behind the gate.
AccountNext ==
  \/ \E slot \in Slots, email \in Users \cup {0}, password \in Users,
        ipAddress \in NextValue(Ips, SeenIps), userAgent \in NextValue(Agents, SeenAgents) :
       LoginStart(slot, email, password, ipAddress, userAgent)
  \/ \E slot \in Slots : LoginWrite(slot)
  \/ \E slot \in Slots, sid \in SessionIds, token \in PresentableTokens : Authenticate(slot, sid, token)
  \/ Send
  \/ \E method \in {"PUT", "DELETE"}, seg \in Users \cup {Me}, sid \in SessionIds,
        token \in PresentableTokens : UsersGate(method, seg, sid, token)
  \/ NoScope
  \/ AdminScope
  \/ UserOrAdminScope
  \/ ValidateParams
  \/ \E isAdmin \in BOOLEAN : UpdateUser(isAdmin)
  \/ DeleteUser

AccountSpec == Init /\ [][AccountNext]_vars

\* The whole life of the sessions of one account: its logins from one
\* device, validations with their lazy expiry, logouts, the clock, and the
\* account promoting itself (PUT /api/users/me) and deleting accounts
\* (DELETE /api/users/:id).
LifecycleNext ==
  \/ \E slot \in Slots : LoginStart(slot, 1, 1, 1, 1)
  \/ \E slot \in Slots : LoginWrite(slot)
  \/ \E slot \in Slots, sid \in SessionIds, token \in PresentableTokens : Authenticate(slot, sid, token)
  \/ \E slot \in Slots : AuthExpire(slot)
  \/ \E sid \in SessionIds \ {0} : LogoutRoute(0, NoToken, sid)
  \/ Tick
  \/ Send
  \/ \E sid \in SessionIds, token \in PresentableTokens : UsersGate("PUT", Me, sid, token)
  \/ \E seg \in Users, sid \in SessionIds, token \in PresentableTokens :
       UsersGate("DELETE", seg, sid, token)
  \/ NoScope
  \/ AdminScope
  \/ ValidateParams
  \/ \E isAdmin \in BOOLEAN : UpdateUser(isAdmin)
  \/ DeleteUser

LifecycleSpec == Init /\ [][LifecycleNext]_vars

\* ------------------------------------------------- POST /api/like-articles
\* LikeArticle.findOne({ where: { userId, articleId } })
existingLikes(userId, articleId) ==
  {i \in 1..Len(likes) : likes[i].userId = userId /\ likes[i].articleId = articleId}

\* The unique index on (userId, articleId) refuses a second row of the pair:
\* LikeArticle.create throws.
violatesUnique(r) == existingLikes(r.userId, r.articleId) # {}

FreeLikeSlot(slot) ==
  /\ likeReqs[slot].pc = "idle"
  /\ \A other \in Slots : other < slot => likeReqs[other].pc # "idle"

\* The answer of createLikeArticle, held until it is on the wire.
likeAnswer(r, status, likeId) == [r EXCEPT !.pc = "done", !.status = status, !.likeId = likeId]

\* createLikeArticle up to and including its lookup of the existing like;
\* userId is req.user.id as the gate left it.
LikeStart(slot, userId, articleId, type) ==
  /\ FreeLikeSlot(slot)
  /\ LET r == [LikeIdle EXCEPT !.userId = userId, !.articleId = articleId, !.type = type]
         found == existingLikes(userId, articleId)
     IN IF articleId \notin Articles
        THEN likeReqs' = [likeReqs EXCEPT ![slot] = likeAnswer(r, 404, 0)]
        ELSE \E existing \in (IF found = {} THEN {0} ELSE found) :
               likeReqs' = [likeReqs EXCEPT ![slot] = [r EXCEPT !.pc = "write", !.existing = existing]]
  /\ UNCHANGED <<now, users, sessions, reqs, res, nSalt, lapsed, call, likes>>

\* existingLike.update({ type }) and the 200, or LikeArticle.create and the
\* 201, or the 500 of the catch when the create throws
LikeWrite(slot) ==
  /\ likeReqs[slot].pc = "write"
  /\ LET r == likeReqs[slot] IN
       IF r.existing # 0
       THEN /\ likes' = [likes EXCEPT ![r.existing].type = r.type]
            /\ likeReqs' = [likeReqs EXCEPT ![slot] = likeAnswer(r, 200, r.existing)]
       ELSE IF violatesUnique(r)
       THEN /\ likeReqs' = [likeReqs EXCEPT ![slot] = likeAnswer(r, 500, 0)]
            /\ UNCHANGED likes
       ELSE /\ likes' = Append(likes, [userId |-> r.userId, articleId |-> r.articleId,
                                       type |-> r.type])
            /\ likeReqs' = [likeReqs EXCEPT ![slot] = likeAnswer(r, 201, Len(likes) + 1)]
  /\ UNCHANGED <<now, users, sessions, reqs, res, nSalt, lapsed, call>>

\* The answer has left.
LikeSend(slot) ==
  /\ likeReqs[slot].pc = "done"
  /\ likeReqs' = [likeReqs EXCEPT ![slot] = LikeIdle]
  /\ UNCHANGED <<now, users, sessions, reqs, res, nSalt, lapsed, call, likes>>

LikeNext ==
  \/ \E slot \in Slots, userId \in Users, articleId \in Articles \cup {UnknownArticle},
        type \in LikeTypes : LikeStart(slot, userId, articleId, type)
  \/ \E slot \in Slots : LikeWrite(slot)
  \/ \E slot \in Slots : LikeSend(slot)

LikeSpec == Init /\ [][LikeNext]_vars

\* ================================================================ claims
\* The token cookie does verify against the stored hash of session sid.
Verifies(token, sid) == token # NoToken /\ verifyToken(token, sessions[sid].tokenHash)

\* The gate answers 401 / 403 with this message about session sid.
GateAnswer(status, message, sid) == Response("authenticate", status, message, 0, sid, NoToken)

\* The gate let the request through in this step: next() with the identity.
LetThrough(sid) == res' = Response("authenticate", 0, MsgNext, sessions[sid].userId, sid, NoToken)

\* The gate found session sid expired: its lazy-expiry write is pending.
ExpiryPending(slot, sid) == res' = NoResponse /\ reqs'[slot] = [Idle EXCEPT !.pc = "expire", !.sid = sid]

\* The gate rejected the request in this step: a 401 / 403 without identity,
\* or the pending lazy-expiry write that ends in the 401 of AuthExpire.
Rejected(slot, sid) ==
  \/ res'.op = "authenticate" /\ res'.status \in {401, 403} /\ res'.user = 0
  \/ ExpiryPending(slot, sid)

\* This step is the first step of some authenticate call.
GateStep ==
  /\ res = NoResponse
  /\ \/ res'.op = "authenticate" /\ reqs' = reqs
     \/ \E slot \in Slots : reqs[slot].pc = "idle" /\ reqs'[slot].pc = "expire"

\* C1: the gate lets a request through if and only if the session is active,
\* expiresAt > now, the token verifies and the user is not banned; otherwise
\* it rejects and attaches no identity.
C1_GateIff ==
  [][GateStep =>
       \A slot \in Slots, sid \in SessionIds, token \in PresentableTokens :
         Authenticate(slot, sid, token) =>
           IF /\ Exists(sid)
              /\ sessions[sid].isActive
              /\ sessions[sid].expiresAt > now
              /\ Verifies(token, sid)
              /\ ~users[sessions[sid].userId].isBanned
           THEN LetThrough(sid)
           ELSE Rejected(slot, sid)]_vars

\* C3: a validation at the exact instant now = expiresAt (active session,
\* correct token, user not banned) is rejected as expired.
C3_RejectedAtExpiresAt ==
  [][GateStep =>
       \A sid \in SessionIds :
         (/\ Exists(sid)
          /\ sessions[sid].isActive
          /\ sessions[sid].expiresAt = now
          /\ ~users[sessions[sid].userId].isBanned)
         => \A slot \in Slots, token \in PresentableTokens :
              (Verifies(token, sid) /\ Authenticate(slot, sid, token))
              => ExpiryPending(slot, sid)]_vars

\* C2: the checks short-circuit in the order existence/active, expiry,
\* credential, ban: an inactive session past expiresAt is rejected as invalid
\* and not written; an expired active session with a wrong token is rejected
\* as expired; a wrong token for a banned user's live session is rejected
\* 401 token invalid, not 403.
C2_CheckOrder ==
  [][/\ GateStep =>
          \A sid \in SessionIds :
            Exists(sid) =>
              \A slot \in Slots, token \in PresentableTokens \ {NoToken} :
                /\ (/\ ~sessions[sid].isActive
                    /\ sessions[sid].expiresAt < now
                    /\ Authenticate(slot, sid, token))
                   => /\ res' = GateAnswer(401, MsgInvalid, sid)
                      /\ sessions' = sessions
                      /\ reqs' = reqs
                /\ (/\ sessions[sid].isActive
                    /\ sessions[sid].expiresAt < now
                    /\ ~Verifies(token, sid)
                    /\ Authenticate(slot, sid, token))
                   => ExpiryPending(slot, sid)
                /\ (/\ sessions[sid].isActive
                    /\ sessions[sid].expiresAt > now
                    /\ ~Verifies(token, sid)
                    /\ users[sessions[sid].userId].isBanned
                    /\ Authenticate(slot, sid, token))
                   => res' = GateAnswer(401, MsgToken, sid)
     /\ \A slot \in Slots :
          AuthExpire(slot) => res' = GateAnswer(401, MsgExpired, reqs[slot].sid)]_vars

\* An inactive session past its expiresAt was just rejected as invalid.
C2_Witness ==
  /\ res = GateAnswer(401, MsgInvalid, res.sessionId)
  /\ Exists(res.sessionId)
  /\ ~sessions[res.sessionId].isActive
  /\ sessions[res.sessionId].expiresAt < now

\* A banned user's live session was just rejected 401 for its token.
C2_WitnessBannedWrongToken ==
  /\ res = GateAnswer(401, MsgToken, res.sessionId)
  /\ Exists(res.sessionId)
  /\ sessions[res.sessionId].isActive
  /\ sessions[res.sessionId].expiresAt > now
  /\ users[sessions[res.sessionId].userId].isBanned

\* C4: once a validation of session s has been performed at a time later
\* than s.expiresAt, s.isActive is false in the store and every later
\* validation of s is rejected, whatever token is presented.
C4_ExpiryMonotonic ==
  \A sid \in lapsed :
    /\ ~sessions[sid].isActive
    /\ \A token \in PresentableTokens : gateDecision(sid, token) # "pass"

\* The gate answered 401 'Token invalide' about session sid in this step.
TokenRejected(sid) == res = NoResponse /\ res' = GateAnswer(401, MsgToken, sid)

\* C5 (as claimed): when the gate rejects an active, unexpired session for a
\* token mismatch, the session record is left unchanged and a following
\* request with the correct token for the same session succeeds.
C5_MismatchThenSuccess ==
  [][\A sid \in SessionIds :
       TokenRejected(sid) =>
         /\ sessions' = sessions
         /\ sessions[sid].isActive
         /\ \A token \in PresentableTokens :
              Verifies(token, sid) => (gateDecision(sid, token) = "pass")']_vars

\* C5 (amended): ... a following request with the correct token succeeds if
\* the owning user is not banned, and is rejected 403 (account banned, the
\* session still untouched) if the user is banned.
C5_MismatchKeepsSession ==
  [][\A sid \in SessionIds :
       TokenRejected(sid) =>
         /\ sessions' = sessions
         /\ sessions[sid].isActive
         /\ \A token \in PresentableTokens :
              Verifies(token, sid) =>
                (gateDecision(sid, token) =
                   IF users[sessions[sid].userId].isBanned THEN "banned" ELSE "pass")']_vars

\* A live session of a user who is not banned was just rejected for its token.
C5_Witness ==
  /\ res = GateAnswer(401, MsgToken, res.sessionId)
  /\ Exists(res.sessionId)
  /\ sessions[res.sessionId].isActive
  /\ sessions[res.sessionId].expiresAt > now
  /\ ~users[sessions[res.sessionId].userId].isBanned

\* C6: banning the user of a session that validates makes the validation
\* fail 403 (account banned) without altering the session; the gate's 403
\* leaves isActive and expiresAt alone; unbanning makes the same sessionId
\* and token validate again.
C6_BanNonDestructive ==
  [][/\ \A userId \in Users :
          (SetBanned(userId, TRUE) \/ SetBanned(userId, FALSE)) =>
            /\ sessions' = sessions
            /\ \A sid \in SessionIds, token \in PresentableTokens :
                 (Exists(sid) /\ sessions[sid].userId = userId) =>
                   /\ (users'[userId].isBanned /\ gateDecision(sid, token) = "pass")
                      => (gateDecision(sid, token) = "banned")'
                   /\ (~users'[userId].isBanned /\ gateDecision(sid, token) = "banned")
                      => (gateDecision(sid, token) = "pass")'
     /\ GateStep =>
          \A sid \in SessionIds :
            (Exists(sid) /\ sessions[sid].isActive /\ sessions[sid].expiresAt > now
               /\ users[sessions[sid].userId].isBanned) =>
              \A slot \in Slots, token \in PresentableTokens :
                (Verifies(token, sid) /\ Authenticate(slot, sid, token)) =>
                  /\ res' = GateAnswer(403, MsgBanned, sid)
                  /\ sessions' = sessions
                  /\ reqs' = reqs]_vars

\* The gate just answered 403 for a banned user's session, which is still
\* active and unexpired in the store.
C6_Witness ==
  /\ res = GateAnswer(403, MsgBanned, res.sessionId)
  /\ Exists(res.sessionId)
  /\ sessions[res.sessionId].isActive
  /\ sessions[res.sessionId].expiresAt > now
  /\ users[sessions[res.sessionId].userId].isBanned

\* C7: logout answers 200 for every session id; it leaves session sid
\* inactive and every other record as it was; on an unknown id it changes
\* nothing; a second logout of the same id changes nothing more.
C7_LogoutIdempotent ==
  [][/\ res = NoResponse => \A sid \in SessionIds \ {0} : ENABLED Logout(sid)
     /\ \A sid \in SessionIds \ {0} :
          Logout(sid) =>
            /\ res' = Response("logout", 200, MsgLogout, 0, sid, NoToken)
            /\ Len(sessions') = Len(sessions)
            /\ \A i \in 1..Len(sessions) :
                 sessions'[i] = IF i = sid THEN [sessions[i] EXCEPT !.isActive = FALSE]
                                ELSE sessions[i]
            /\ ~Exists(sid) => sessions' = sessions
            /\ (deactivate(sid) = sessions)']_vars

\* A logout of an existing session was just answered 200 and the session is
\* inactive.
C7_Witness ==
  /\ res = Response("logout", 200, MsgLogout, 0, res.sessionId, NoToken)
  /\ Exists(res.sessionId)
  /\ ~sessions[res.sessionId].isActive

\* A logout of an id that names no record was just answered 200.
C7_WitnessUnknownId ==
  /\ res = Response("logout", 200, MsgLogout, 0, res.sessionId, NoToken)
  /\ ~Exists(res.sessionId)
  /\ Len(sessions) > 0

\* Request slot `slot` passed the credential checks of login and did its
\* session lookup in this step.
LookedUp(slot) == reqs[slot].pc = "idle" /\ reqs'[slot].pc = "write"

\* The records of the same (userId, ipAddress, userAgent) as login request r.
SameTriple(r) ==
  {i \in 1..Len(sessions) :
     /\ sessions[i].userId = r.userId
     /\ sessions[i].ipAddress = r.ipAddress
     /\ sessions[i].userAgent = r.userAgent}

\* The Active-Valid records among them.
ActiveValid(r) == {i \in SameTriple(r) : sessions[i].isActive /\ sessions[i].expiresAt > now}

\* The 200 of a login that ends on session sid.
LoginAnswer(r, sid) == Response("login", 200, MsgLogin, r.userId, sid, r.token)

\* C8: a successful login for which an Active-Valid session of the same
\* (userId, ipAddress, userAgent) exists picks that session, returns its id,
\* inserts no record and updates the record in place with a new tokenHash and
\* expiresAt = now + SESSION_EXPIRES_IN, its id, userId, ipAddress and
\* userAgent unchanged.
C8_RenewalInPlace ==
  [][\A slot \in Slots :
       /\ (LookedUp(slot) /\ ActiveValid(reqs'[slot]) # {}) =>
            /\ reqs'[slot].existing \in ActiveValid(reqs'[slot])
            /\ reqs'[slot].expiresAt = now + SESSION_EXPIRES_IN
            /\ reqs'[slot].tokenHash # sessions[reqs'[slot].existing].tokenHash
            /\ sessions' = sessions
       /\ (reqs[slot].pc = "write" /\ reqs[slot].existing # 0 /\ LoginWrite(slot)) =>
            LET r == reqs[slot] IN
              /\ res' = LoginAnswer(r, r.existing)
              /\ Len(sessions') = Len(sessions)
              /\ \A i \in 1..Len(sessions) :
                   sessions'[i] = IF i = r.existing
                                  THEN [userId |-> sessions[i].userId,
                                        ipAddress |-> sessions[i].ipAddress,
                                        userAgent |-> sessions[i].userAgent,
                                        tokenHash |-> r.tokenHash,
                                        expiresAt |-> r.expiresAt,
                                        isActive |-> TRUE]
                                  ELSE sessions[i]]_vars

\* A second login from the same triple was just answered with the id of the
\* only record, which carries the second hash and a later expiry.
C8_Witness ==
  /\ res.op = "login" /\ res.status = 200 /\ res.sessionId = 1
  /\ Len(sessions) = 1
  /\ nSalt = 2 /\ \A slot \in Slots : reqs[slot].pc = "idle"
  /\ sessions[1].tokenHash.salt = 2
  /\ sessions[1].expiresAt > SESSION_EXPIRES_IN

\* C9: a successful login whose triple differs from every session of the
\* user in the ipAddress or the userAgent inserts a record under a fresh id
\* and leaves every existing session unchanged, so that each still validates
\* as before with its own token.
C9_NewDeviceNewSession ==
  [][\A slot \in Slots :
       /\ (LookedUp(slot) /\ SameTriple(reqs'[slot]) = {}) =>
            /\ reqs'[slot].existing = 0
            /\ sessions' = sessions
       /\ (reqs[slot].pc = "write" /\ reqs[slot].existing = 0 /\ LoginWrite(slot)) =>
            LET r == reqs[slot] IN
              /\ res' = LoginAnswer(r, Len(sessions) + 1)
              /\ ~Exists(Len(sessions) + 1)
              /\ Len(sessions') = Len(sessions) + 1
              /\ sessions'[Len(sessions) + 1] =
                   [userId |-> r.userId, ipAddress |-> r.ipAddress,
                    userAgent |-> r.userAgent, tokenHash |-> r.tokenHash,
                    expiresAt |-> r.expiresAt, isActive |-> TRUE]
              /\ \A i \in 1..Len(sessions) :
                   /\ sessions'[i] = sessions[i]
                   /\ \A token \in PresentableTokens :
                        (gateDecision(i, token))' = gateDecision(i, token)]_vars

\* A login from another device was just answered with a second record, and
\* the first session of that user still validates with its own token.
C9_Witness ==
  /\ res.op = "login" /\ res.status = 200 /\ res.sessionId = 2
  /\ Len(sessions) = 2
  /\ sessions[1].userId = sessions[2].userId
  /\ \/ sessions[1].ipAddress # sessions[2].ipAddress
     \/ sessions[1].userAgent # sessions[2].userAgent
  /\ sessions[1].tokenHash.salt = 1
  /\ gateDecision(1, generateToken(sessions[1].userId, 0)) = "pass"

\* C10: at most one active and unexpired session record exists for a
\* (userId, ipAddress, userAgent) triple, in every reachable state.
C10_OneReusablePerTriple ==
  \A i, j \in 1..Len(sessions) :
    (/\ sessions[i].userId = sessions[j].userId
     /\ sessions[i].ipAddress = sessions[j].ipAddress
     /\ sessions[i].userAgent = sessions[j].userAgent
     /\ sessions[i].isActive /\ sessions[i].expiresAt > now
     /\ sessions[j].isActive /\ sessions[j].expiresAt > now) => i = j

\* C11: the gate answers 401 for a missing session id or token, for an
\* invalid session, an expired session and a token mismatch, and 403 only for
\* a banned account; a request lacking one of the two cookies is rejected 401
\* before any awaited call on the store, which it neither reads (so no store
\* failure can turn the answer into a 500) nor changes.
C11_StatusClasses ==
  [][/\ GateStep =>
          \A slot \in Slots, sid \in SessionIds, token \in PresentableTokens :
            /\ (sid = 0 \/ token = NoToken) =>
                 /\ ~AuthenticateThrows(slot, sid, token)
                 /\ Authenticate(slot, sid, token) =>
                      /\ res' = GateAnswer(401, MsgMissing, sid)
                      /\ UNCHANGED <<sessions, users, reqs, lapsed>>
            /\ Authenticate(slot, sid, token) =>
                 /\ res'.status \in {0, 401, 403}
                 /\ res'.status = 0 => (LetThrough(sid) \/ ExpiryPending(slot, sid))
                 /\ res'.status = 403 <=>
                      /\ sid # 0 /\ Exists(sid)
                      /\ sessions[sid].isActive
                      /\ ~(sessions[sid].expiresAt < now)
                      /\ Verifies(token, sid)
                      /\ users[sessions[sid].userId].isBanned
     /\ \A slot \in Slots : AuthExpire(slot) => res'.status = 401]_vars

\* A request naming a live session but carrying no token was just rejected
\* 401 for the missing credential.
C11_Witness ==
  /\ res = GateAnswer(401, MsgMissing, res.sessionId)
  /\ Exists(res.sessionId)
  /\ sessions[res.sessionId].isActive
  /\ sessions[res.sessionId].expiresAt > now

\* What the client sees of the gate's answer to (sid, token) in this state.
Visible(sid, token) ==
  [status |-> gateResponse(gateDecision(sid, token), sid).status,
   message |-> gateResponse(gateDecision(sid, token), sid).message]

\* C12: any two requests the gate rejects 401 for different reasons (session
\* not found or inactive, session expired, token mismatch) get the same
\* status and the same message.
C12_NoReasonLeak ==
  \A sid1, sid2 \in SessionIds \ {0} :
    \A token1, token2 \in PresentableTokens \ {NoToken} :
      (Visible(sid1, token1).status = 401 /\ Visible(sid2, token2).status = 401)
        => Visible(sid1, token1) = Visible(sid2, token2)

\* This step is the first step of some login call.
LoginStep ==
  /\ res = NoResponse
  /\ \/ res'.op = "login" /\ reqs' = reqs
     \/ \E slot \in Slots : LookedUp(slot)

\* C13: a login answered 401 (unknown email or wrong password, one message
\* for both) or 403 (banned account) creates no session record, modifies
\* none and leaves no write pending.
C13_FailedLoginNoWrite ==
  [][LoginStep =>
       \A slot \in Slots, email \in Users \cup {0}, password \in Users,
          ipAddress \in Ips, userAgent \in Agents :
         LoginStart(slot, email, password, ipAddress, userAgent) =>
           /\ (email \notin Users \/ users[email].isBanned \/ users[email].password # password) =>
                /\ res' = Response("login",
                                   IF email \in Users /\ users[email].isBanned THEN 403 ELSE 401,
                                   IF email \in Users /\ users[email].isBanned THEN MsgBanned
                                   ELSE MsgBadLogin,
                                   0, 0, NoToken)
                /\ UNCHANGED <<sessions, reqs, nSalt>>
           /\ res'.status \in {401, 403} => UNCHANGED <<sessions, reqs, nSalt>>]_vars

\* A login was just refused 401 while the store holds a live session.
C13_Witness ==
  /\ res = Response("login", 401, MsgBadLogin, 0, 0, NoToken)
  /\ \E sid \in 1..Len(sessions) : sessions[sid].isActive /\ sessions[sid].expiresAt > now

\* C14: after logout(sid) every request presenting sid is rejected 401 by the
\* gate, whatever its token, for as long as no login's renewal writes the
\* record again; logout changes only isActive of the named session, and every
\* other session validates as before.
C14_LogoutRevokes ==
  [][/\ \A sid \in SessionIds \ {0} :
          Logout(sid) =>
            /\ Exists(sid) =>
                 /\ sessions'[sid] = [sessions[sid] EXCEPT !.isActive = FALSE]
                 /\ \A token \in PresentableTokens :
                      (gateResponse(gateDecision(sid, token), sid).status = 401)'
            /\ \A i \in 1..Len(sessions) :
                 i # sid =>
                   /\ sessions'[i] = sessions[i]
                   /\ \A token \in PresentableTokens :
                        (gateDecision(i, token))' = gateDecision(i, token)
     /\ \A sid \in 1..Len(sessions) :
          (~sessions[sid].isActive /\ sessions'[sid].isActive) =>
            \E slot \in Slots :
              reqs[slot].pc = "write" /\ reqs[slot].existing = sid /\ LoginWrite(slot)
     /\ GateStep =>
          \A sid \in 1..Len(sessions) :
            ~sessions[sid].isActive =>
              \A slot \in Slots, token \in PresentableTokens :
                Authenticate(slot, sid, token) =>
                  /\ res'.status = 401
                  /\ res'.user = 0
                  /\ sessions' = sessions]_vars

\* A logged-out, unexpired session of a user who is not banned was just
\* rejected 401 while another session of the same user is still usable.
C14_Witness ==
  /\ res = GateAnswer(401, MsgInvalid, res.sessionId)
  /\ Exists(res.sessionId)
  /\ ~sessions[res.sessionId].isActive
  /\ sessions[res.sessionId].expiresAt > now
  /\ ~users[sessions[res.sessionId].userId].isBanned
  /\ \E other \in 1..Len(sessions) :
       /\ other # res.sessionId
       /\ sessions[other].userId = sessions[res.sessionId].userId
       /\ gateDecision(other, generateToken(sessions[other].userId, 0)) = "pass"

\* C15: a logout request naming session sid in its body deactivates it and
\* is answered 200 whatever cookies it carries: none, those of the session,
\* or those of another user's session.
C15_LogoutWithoutOwnership ==
  [][\A sid \in 1..Len(sessions), cred \in Credentials :
       /\ res = NoResponse => ENABLED LogoutRoute(cred[1], cred[2], sid)
       /\ LogoutRoute(cred[1], cred[2], sid) =>
            /\ res' = Response("logout", 200, MsgLogout, 0, sid, NoToken)
            /\ ~sessions'[sid].isActive]_vars

\* A live session was just revoked by a logout answered 200 while a live
\* session of another user, whose cookies the request may have carried,
\* is in the store.
C15_Witness ==
  /\ res = Response("logout", 200, MsgLogout, 0, res.sessionId, NoToken)
  /\ Exists(res.sessionId)
  /\ ~sessions[res.sessionId].isActive
  /\ sessions[res.sessionId].expiresAt > now
  /\ \E other \in 1..Len(sessions) :
       /\ sessions[other].userId # sessions[res.sessionId].userId
       /\ <<other, generateToken(sessions[other].userId, 0)>> \in Credentials
       /\ gateDecision(other, generateToken(sessions[other].userId, 0)) = "pass"

\* C16: when a session lookup, a session update or the token comparison
\* throws in authenticate, login, logout or getSession, the answer is a 500
\* (never 401 or 403), no identity and no cookie go with it, the request is
\* not handed to a downstream handler and the stores are left as they were.
C16_FailuresAre5xx ==
  [][Throws =>
       /\ res'.status = 500
       /\ res'.user = 0
       /\ res'.token = NoToken
       /\ res'.message # MsgNext
       /\ UNCHANGED <<sessions, users>>
       /\ \A slot \in Slots : reqs'[slot] = reqs[slot] \/ reqs'[slot] = Idle]_vars

\* The store just failed under a request that presented a live session of a
\* user who is not banned: the gate answered 500.
C16_Witness ==
  /\ res = Response("authenticate", 500, MsgInternal, 0, res.sessionId, NoToken)
  /\ Exists(res.sessionId)
  /\ sessions[res.sessionId].isActive
  /\ sessions[res.sessionId].expiresAt > now
  /\ ~users[sessions[res.sessionId].userId].isBanned

\* C17: every rejection on the path of a protected request (the gate and the
\* GET /auth/session handler behind it) carries a message: its body is
\* { success: false, message }.
C17_RejectionShape ==
  (res.op \in {"authenticate", "session"} /\ res.status \in {401, 403, 500})
    => res.message # NoMessage

\* The request went on to the next middleware or the handler in this step.
WentOn == call'.pc \in {"validate", "handler"} /\ call'.status = 0

\* The request was answered with this status in this step.
AnsweredWith(status) == call'.pc = "done" /\ call'.status = status

\* C18: for every identity and every target id, present or absent,
\* userOrAdminScope lets the request through if and only if userScope or
\* adminScope would, and answers 403 otherwise.
C18_SelfOrAdminIsDisjunction ==
  [][UserOrAdminScope =>
       (call.user # NoUser =>
          /\ WentOn <=> \/ userScope(call.user, call.params).status = 0
                        \/ adminScope(call.user, call.params).status = 0
          /\ ~WentOn => AnsweredWith(403)
          /\ call'.params = call.params)]_vars

\* An admin went through userOrAdminScope towards another user's record.
C18_Witness ==
  /\ call.scope = "userOrAdminScope"
  /\ call.pc = "validate"
  /\ call.user.isAdmin
  /\ call.params \in Users /\ call.params # call.user.id

\* C19: userScope lets an identity through if and only if no target id is
\* supplied or the target id is the identity's own id; another target is
\* answered 403 even for an admin; a request without identity is answered 401.
C19_SelfOnly ==
  [][UserScope =>
       /\ call.user = NoUser => AnsweredWith(401)
       /\ call.user # NoUser =>
            /\ WentOn <=> (call.params = NoId \/ call.params = call.user.id)
            /\ ~WentOn => AnsweredWith(403)
       /\ call'.params = call.params
       /\ call'.target = NoId]_vars

\* userScope just answered 403 to an admin who named another user's id.
C19_Witness ==
  /\ call.scope = "userScope"
  /\ call.pc = "done" /\ call.status = 403
  /\ call.user.isAdmin
  /\ call.params \in Users /\ call.params # call.user.id

\* The request is one to a /me route as the router mounts it.
OnMeRoute == UserRoutes[call.route].first = "me" /\ call.scope = UserRoutes[call.route].scope

\* C20: the handler of a /me route acts on the record of the authenticated
\* identity, whatever ids the caller put in the query string or the body, and
\* forceUserScope replaces the id of the params with the identity's id.
C20_ForcedSelf ==
  [][/\ (Handler /\ OnMeRoute) =>
          /\ call.user # NoUser
          /\ call'.target = call.user.id
     /\ (call.pc = "scope" /\ OnMeRoute) => call'.pc = "handler"
     /\ (ForceUserScope /\ call.user # NoUser) =>
          /\ WentOn
          /\ call'.params = call.user.id]_vars

\* A /me request carrying another user's id in its query string and in its
\* body was served from the caller's own record.
C20_Witness ==
  /\ call.pc = "done" /\ call.status = 200
  /\ OnMeRoute
  /\ call.target = call.user.id
  /\ call.queryId \in Users /\ call.queryId # call.user.id
  /\ call.bodyId \in Users /\ call.bodyId # call.user.id

\* forceUserScope just replaced another user's id in the params by the
\* caller's own.
C20_WitnessForced ==
  /\ call.scope = "forceUserScope"
  /\ call.pc = "validate"
  /\ call.seg \in Users /\ call.seg # call.user.id
  /\ call.params = call.user.id

\* C21: a non-admin who passed the gate and the self-or-admin scope of
\* PUT /api/users/:id on their own id has the isAdmin of the body stored and
\* answered 200; the gate loads req.user from the users table on every
\* request, and adminScope lets through whoever that row says is an admin.
C21_SelfPromotion ==
  [][/\ (call.pc = "handler" /\ call.scope = "userOrAdminScope" /\ ~call.user.isAdmin) =>
          \A isAdmin \in BOOLEAN :
            UpdateUser(isAdmin) =>
              /\ call'.target = call.user.id
              /\ call'.status = 200
              /\ users'[call.user.id].isAdmin = isAdmin
     /\ (call.pc \in {"none", "done"} /\ call'.pc = "scope") =>
          /\ call'.user.id \in DOMAIN users
          /\ call'.user.isAdmin = users[call'.user.id].isAdmin
     /\ (AdminScope /\ call.user.isAdmin) => WentOn]_vars

\* PUT /api/users/:id with { isAdmin: true } by a non-admin on their own id
\* was answered 200 and the row says admin.
C21_Witness ==
  /\ call.pc = "done" /\ call.status = 200
  /\ call.method = "PUT" /\ call.scope = "userOrAdminScope"
  /\ ~call.user.isAdmin
  /\ call.target = call.user.id
  /\ users[call.user.id].isAdmin

\* With one login ever made, the session of a user who registered without
\* privileges has passed adminScope.
C21_WitnessNextRequest ==
  /\ nSalt = 1 /\ Len(sessions) = 1
  /\ call.scope = "adminScope" /\ call.pc = "validate"
  /\ call.user.isAdmin
  /\ users[call.user.id].isAdmin

\* C22: after any POST /api/like-articles, concurrent ones included, at most
\* one like exists per (userId, articleId); a POST by a user who has a like on
\* the article updates its type in place, keeps its id and answers 200; a
\* POST by a user who has none creates exactly one like and answers 201.
C22_LikeUpsert ==
  [][/\ \A userId \in Users, articleId \in Articles :
          Cardinality(existingLikes(userId, articleId))' <= 1
     /\ \A slot \in Slots :
          (likeReqs[slot].pc = "write" /\ likeReqs'[slot].pc = "done") =>
            LET r == likeReqs[slot]
                had == existingLikes(r.userId, r.articleId)
                answer == likeReqs'[slot]
            IN IF had # {}
               THEN /\ answer.status = 200
                    /\ answer.likeId \in had
                    /\ likes' = [likes EXCEPT ![answer.likeId].type = r.type]
               ELSE /\ answer.status = 201
                    /\ answer.likeId = Len(likes) + 1
                    /\ likes' = Append(likes, [userId |-> r.userId, articleId |-> r.articleId,
                                               type |-> r.type])]_vars

\* C23: the only write of authenticate is isActive = false on the session it
\* found expired; when it lets a request through and when it rejects one for
\* a missing credential, an invalid session, a wrong token or a ban, the
\* session store and the user store are left as they were.
C23_GateWritesOnlyExpiry ==
  [][/\ (res = NoResponse /\ res'.op = "authenticate") =>
          /\ users' = users
          /\ res'.message # MsgExpired => sessions' = sessions
          /\ res'.message = MsgExpired =>
               sessions' = [sessions EXCEPT ![res'.sessionId].isActive = FALSE]
     /\ \A slot \in Slots :
          (reqs[slot].pc = "idle" /\ reqs'[slot].pc = "expire") =>
            /\ hasExpired(sessions[reqs'[slot].sid])
            /\ UNCHANGED <<sessions, users>>]_vars

\* The gate has just answered 'Session expiree' and the record it found
\* expired is inactive.
C23_Witness ==
  /\ res.op = "authenticate" /\ res.message = MsgExpired
  /\ Exists(res.sessionId)
  /\ hasExpired(sessions[res.sessionId])
  /\ ~sessions[res.sessionId].isActive

\* The gate has just let a request through.
C23_WitnessPass ==
  /\ res.op = "authenticate" /\ res.message = MsgNext
  /\ sessions[res.sessionId].isActive

\* The records of the triple of request r.
OfTriple(r) ==
  {i \in 1..Len(sessions) : /\ sessions[i].userId = r.userId
                            /\ sessions[i].ipAddress = r.ipAddress
                            /\ sessions[i].userAgent = r.userAgent}

\* Logged out or lazily expired, or still flagged active but past expiresAt.
Stale(i) == ~sessions[i].isActive \/ sessions[i].expiresAt < now

\* C24: when every record of the triple is inactive or past expiresAt at the
\* lookup of a login that passed its checks, the login finds none to renew;
\* its write then inserts one record under a fresh id, answers 200 with that
\* id and leaves every record that was there as it was.
C24_StaleNotRenewed ==
  [][\A slot \in Slots :
       /\ (reqs[slot].pc = "idle" /\ reqs'[slot].pc = "write") =>
            ((\A i \in OfTriple(reqs'[slot]) : Stale(i)) => reqs'[slot].existing = 0)
       /\ (reqs[slot].pc = "write" /\ reqs'[slot].pc = "idle" /\ reqs[slot].existing = 0) =>
            /\ res'.status = 200
            /\ res'.sessionId = Len(sessions) + 1
            /\ Len(sessions') = Len(sessions) + 1
            /\ SubSeq(sessions', 1, Len(sessions)) = sessions
            /\ sessions'[res'.sessionId].isActive
            /\ sessions'[res'.sessionId].userId = reqs[slot].userId]_vars

\* A login has just inserted a record beside one of the same triple that is
\* past expiresAt and was never validated: it is still flagged active.
C24_Witness ==
  /\ res.op = "login" /\ res.status = 200
  /\ res.sessionId = Len(sessions)
  /\ \E i \in OfTriple(sessions[res.sessionId]) \ {res.sessionId} :
       /\ sessions[i].isActive
       /\ sessions[i].expiresAt < now
       /\ i \notin lapsed

\* C25: a session whose isActive has been set to false, by logout or by lazy
\* expiry, never has isActive = true again, under any interleaving of login,
\* validation and logout steps.
C25_InactiveAbsorbing ==
  [][\A sid \in 1..Len(sessions) :
       ~sessions[sid].isActive => ~sessions'[sid].isActive]_vars

\* The write of the login in this slot has just answered 200.
LoginAnswered(slot) ==
  /\ reqs[slot].pc = "write" /\ reqs'[slot].pc = "idle"
  /\ res'.op = "login" /\ res'.status = 200

\* Record sid is in the store as the login of request r wrote it: active,
\* expiring one lifetime after the login, its hash matching the token of the
\* cookie.
AsWritten(sid, r, token) ==
  /\ sid \in 1..Len(sessions') /\ sessions'[sid] # Removed
  /\ sessions'[sid].isActive
  /\ sessions'[sid].userId = r.userId
  /\ sessions'[sid].expiresAt = r.expiresAt
  /\ token = r.token
  /\ verifyToken(token, sessions'[sid].tokenHash)

\* The lookup of a login stamps the request one lifetime ahead.
StampedAtLookup ==
  \A slot \in Slots :
    (reqs[slot].pc = "idle" /\ reqs'[slot].pc = "write") =>
      reqs'[slot].expiresAt = now + SESSION_EXPIRES_IN

newestToken(sid) ==
  generateToken(sessions[sid].userId, sessions[sid].expiresAt - SESSION_EXPIRES_IN)

\* The JWTs an earlier login of the user of record sid issued: signed at an
\* earlier clock reading than the newest one.
OlderTokens(sid) ==
  {generateToken(sessions[sid].userId, iat) :
     iat \in 0..(sessions[sid].expiresAt - SESSION_EXPIRES_IN - 1)}

\* Two logins are over and left one record: the second renewed it in place.
RenewedInPlace(sid) ==
  /\ nSalt = 2 /\ Len(sessions) = 1 /\ sid = 1
  /\ \A slot \in Slots : reqs[slot].pc # "write"

\* C27: after a login renewed session S in place, a request presenting S with
\* a token of an earlier login of the same user that differs from the newest
\* token is not let through, and is answered 401 'Token invalide' when S is
\* active and not expired.
C27_OnlyNewestToken ==
  [][GateStep =>
       \A sid \in SessionIds :
         (Exists(sid) /\ RenewedInPlace(sid)) =>
           \A slot \in Slots, token \in PresentableTokens \cap OlderTokens(sid) :
             (token # newestToken(sid) /\ Authenticate(slot, sid, token)) =>
               /\ ~LetThrough(sid)
               /\ (sessions[sid].isActive /\ ~hasExpired(sessions[sid])) =>
                    res' = GateAnswer(401, MsgToken, sid)]_vars

C29_SessionAnswerIsLive ==
  [][\A slot \in Slots :
       (reqs[slot].pc = "session" /\ res'.op = "session" /\ res'.status = 200) =>
         /\ sessions[res'.sessionId].isActive
         /\ ~users[res'.user].isBanned]_vars

\* C30: after DELETE /api/users/:id succeeded for user u, no session that
\* belonged to u authenticates a later request: the delete removes every
\* session row of u, a removed row never comes back, no row of a deleted user
\* is ever stored, the gate answers 401 to every sessionId of a removed row
\* whatever the token, and whoever the gate lets through is a stored user.
C30_DeletedUserLockedOut ==
  [][/\ (call.pc = "handler" /\ call'.pc = "done" /\ call'.status = 200
           /\ UserRoutes[call.route].handler = "deleteUser") =>
          /\ call'.target \notin DOMAIN users'
          /\ \A sid \in 1..Len(sessions) :
               sessions[sid].userId = call'.target => sessions'[sid] = Removed
     /\ \A sid \in 1..Len(sessions) : sessions[sid] = Removed => sessions'[sid] = Removed
     /\ \A sid \in 1..Len(sessions') :
          sessions'[sid] # Removed => sessions'[sid].userId \in DOMAIN users'
     /\ GateStep =>
          \A sid \in 1..Len(sessions) :
            sessions[sid] = Removed =>
              \A slot \in Slots, token \in PresentableTokens \ {NoToken} :
                Authenticate(slot, sid, token) => res' = GateAnswer(401, MsgInvalid, sid)
     /\ (res = NoResponse /\ res'.op = "authenticate" /\ res'.message = MsgNext) =>
          res'.user \in DOMAIN users
     /\ (call.pc \in {"none", "done"} /\ call'.pc = "scope") =>
          call'.user.id \in DOMAIN users]_vars

\* The gate has just answered 401 'Session invalide' to a request naming the
\* removed session of a deleted user.
C30_Witness ==
  /\ DOMAIN users # Users
  /\ res.op = "authenticate" /\ res.status = 401 /\ res.message = MsgInvalid
  /\ res.sessionId \in 1..Len(sessions)
  /\ sessions[res.sessionId] = Removed
====
